---- MODULE Spec2Model ----
(***************************************************************************)
(* A model of the software renderer (renderer/objreader.py and             *)
(* renderer/renderer.py).                                                  *)
(*                                                                         *)
(* Conventions.                                                            *)
(*  - Python lists and tuples are sequences; vertex indices keep their     *)
(*    Python (0-based) values and At(list, i) reads list[i].               *)
(*  - Rotation angles are counted in steps of 0.02 radians (the only       *)
(*    increment the program ever applies), so an angle n stands for        *)
(*    n * 0.02.                                                            *)
(*  - Time is counted in ticks of 1/60 second (TARGET_FRAME_TIME).         *)
(*  - Coordinates after rotation are fixed-point numbers in thousandths    *)
(*    (Unit), as are sines and cosines; depths are recorded in units of    *)
(*    0.00001 (the epsilon).                                               *)
(***************************************************************************)
EXTENDS Integers, Sequences, FiniteSets, TLC

VARIABLES
    pc,               \* position of main(): "start", "loop", "crashed", "exit";
                      \* "call"/"ret" when one function is exercised on its own
    file,             \* sys.argv[1] as a sequence of lines, or NoFile
    vertices,         \* scene.vertices
    facets,           \* scene.facets
    edges,            \* scene.edges
    camera_position,  \* scene.camera_position
    camera_rotation,  \* scene.camera_rotation, in steps of 0.02 rad
    rotating,         \* scene.rotating
    filled,           \* scene.filled
    FPS,              \* global FPS
    FRAME_RATE_TIME,  \* global FRAME_RATE_TIME, in ticks
    FRAME_RATE_COUNT, \* global FRAME_RATE_COUNT
    mouse_rel,        \* pygame: motion accumulated since the last get_rel()
    mouse_pressed,    \* pygame: get_pressed() as <<left, middle, right>>
    point_list,       \* render_model: screen points of the last frame
    depth_list,       \* render_model: depths of the last frame
    ordered_facets,   \* render_model: facets in drawing order, last frame
    op,               \* the handler that ran last, with what it observed
    hist              \* history of the frame-rate windows (observation only)

vars == <<pc, file, vertices, facets, edges, camera_position, camera_rotation,
          rotating, filled, FPS, FRAME_RATE_TIME, FRAME_RATE_COUNT, mouse_rel,
          mouse_pressed, point_list, depth_list, ordered_facets, op, hist>>

sceneVars == <<vertices, facets, edges>>
cameraVars == <<camera_position, camera_rotation>>
flagVars == <<rotating, filled>>
clockVars == <<FPS, FRAME_RATE_TIME, FRAME_RATE_COUNT, hist>>
mouseVars == <<mouse_rel, mouse_pressed>>
frameVars == <<point_list, depth_list, ordered_facets>>

(***************************************************************************)
(* Python helpers                                                          *)
(***************************************************************************)
At(list, i) == list[i + 1]

Min(a, b) == IF a <= b THEN a ELSE b
Max(a, b) == IF a >= b THEN a ELSE b
Abs(a) == IF a < 0 THEN -a ELSE a

\* int(a / b) for floats a/b: truncation toward zero
TruncDiv(a, b) ==
    LET q == Abs(a) \div Abs(b)
    IN  IF (a < 0) = (b < 0) THEN q ELSE -q

Reverse(s) == [i \in 1..Len(s) |-> s[Len(s) + 1 - i]]

\* the sequences over S of length at most n
SeqsUpTo(S, n) == UNION {[1..k -> S] : k \in 0..n}

(***************************************************************************)
(* objreader.convert_facets_to_edges                                       *)
(***************************************************************************)
unsorted_pair(a, b) == <<a, b>>

\* sorted([a, b])
sorted_pair(a, b) == <<Min(a, b), Max(a, b)>>

\* `edge not in edges` followed by append
append_if_absent(es, edge) ==
    IF \E k \in 1..Len(es) : es[k] = edge THEN es ELSE Append(es, edge)

facet_edges(es, facet) ==
    LET edge1 == sorted_pair(At(facet, 0), At(facet, 1))
        edge2 == sorted_pair(At(facet, 1), At(facet, 2))
        edge3 == sorted_pair(At(facet, 0), At(facet, 2))
    IN  append_if_absent(append_if_absent(append_if_absent(es, edge1), edge2), edge3)

RECURSIVE edges_from(_, _, _)
edges_from(fs, k, es) ==
    IF k > Len(fs) THEN es ELSE edges_from(fs, k + 1, facet_edges(es, fs[k]))

convert_facets_to_edges(fs) == edges_from(fs, 1, <<>>)

(***************************************************************************)
(* Scene.__init__: the built-in cube                                       *)
(***************************************************************************)
CubeVertices ==
    << <<-1, -1, 1>>, <<-1, 1, 1>>, <<1, 1, 1>>, <<1, -1, 1>>,
       <<-1, -1, -1>>, <<-1, 1, -1>>, <<1, 1, -1>>, <<1, -1, -1>> >>

CubeFacets ==
    << <<0, 1, 2>>, <<2, 3, 0>>, <<1, 5, 6>>, <<6, 2, 1>>,
       <<5, 4, 7>>, <<7, 6, 5>>, <<4, 0, 3>>, <<3, 7, 4>>,
       <<3, 2, 6>>, <<6, 7, 3>>, <<0, 5, 1>>, <<0, 4, 5>> >>

CubeEdges ==
    << <<0, 1>>, <<1, 2>>, <<2, 3>>, <<3, 0>>,
       <<4, 5>>, <<5, 6>>, <<6, 7>>, <<7, 4>>,
       <<0, 4>>, <<1, 5>>, <<2, 6>>, <<3, 7>> >>

InitialCameraZ == -10
InitialFPS == 60

SceneInit ==
    /\ vertices = CubeVertices
    /\ facets = CubeFacets
    /\ edges = CubeEdges
    /\ camera_position = <<0, 0, InitialCameraZ>>
    /\ camera_rotation = <<0, 0, 0>>
    /\ rotating = FALSE
    /\ filled = FALSE

GlobalsInit ==
    /\ FPS = InitialFPS
    /\ FRAME_RATE_TIME = 0
    /\ FRAME_RATE_COUNT = 0
    /\ hist = [frames |-> 0, exact |-> TRUE, first |-> TRUE, set |-> FALSE]

PygameInit ==
    /\ mouse_rel = <<0, 0>>
    /\ mouse_pressed = <<FALSE, FALSE, FALSE>>

NoFrameYet ==
    /\ point_list = <<>>
    /\ depth_list = <<>>
    /\ ordered_facets = <<>>

(***************************************************************************)
(* Scene.render_model: rotation, translation, projection                   *)
(***************************************************************************)
WIDTH == 800
HEIGHT == 600
camera_distortion == 512
centre_x == WIDTH \div 2
centre_y == HEIGHT \div 2

\* sin and cos of n * 0.02 rad in thousandths, n = 0..8
SinTable == <<0, 20, 40, 60, 80, 100, 120, 140, 159>>
CosTable == <<1000, 1000, 999, 998, 997, 995, 993, 990, 987>>

\* the fixed-point unit: cos(0) = 1.0
Unit == CosTable[1]
\* 1 / 0.00001, the number of depth units in 1.0
EpsilonInv == 100000

Sin(n) == IF n < 0 THEN -SinTable[1 - n] ELSE SinTable[1 + n]
Cos(n) == CosTable[1 + Abs(n)]

\* a * t for a fixed-point a and a sine or cosine t
FMul(a, t) == TruncDiv(a * t, Unit)

\* the first rotation as a plain rotation (no sign change at angle 0)
rotate_x_plain(p, r) ==
    <<FMul(p[1], Cos(r)) + FMul(p[3], Sin(r)),
      p[2],
      -FMul(p[1], Sin(r)) + FMul(p[3], Cos(r))>>

\* tmp = z; z = -x sin r0 - z cos r0; x = -x cos r0 + tmp sin r0
rotate_x(p, r) ==
    <<-FMul(p[1], Cos(r)) + FMul(p[3], Sin(r)),
      p[2],
      -FMul(p[1], Sin(r)) - FMul(p[3], Cos(r))>>

\* tmp = z; z = -y sin r1 + z cos r1; y = y cos r1 + tmp sin r1
rotate_y(p, r) ==
    <<p[1],
      FMul(p[2], Cos(r)) + FMul(p[3], Sin(r)),
      -FMul(p[2], Sin(r)) + FMul(p[3], Cos(r))>>

\* tmp = x; x = x cos r2 - y sin r2; y = y cos r2 + tmp sin r2
rotate_z(p, r) ==
    <<FMul(p[1], Cos(r)) - FMul(p[2], Sin(r)),
      FMul(p[2], Cos(r)) + FMul(p[1], Sin(r)),
      p[3]>>

\* x -= camera_position[0]; y -= ...; z -= ...
translate(p, cam) ==
    <<p[1] - cam[1] * Unit, p[2] - cam[2] * Unit, p[3] - cam[3] * Unit>>

\* if z == 0: z = 0.00001 (a fixed-point z becomes a depth in units of 0.00001)
guard_depth(z) == IF z = 0 THEN 1 ELSE z * (EpsilonInv \div Unit)

\* screen = int(camera_distortion * c / z + centre)
project(c, z, centre) == TruncDiv(camera_distortion * c + centre * z, z)

\* the projection transform of a translated point, with its depth z
project_point(p, z) ==
    [point |-> <<project(p[1] * (EpsilonInv \div Unit), z, centre_x),
                 project(p[2] * (EpsilonInv \div Unit), z, centre_y)>>,
     depth |-> z]

\* after the guard against division by zero
project_guarded(p) == project_point(p, guard_depth(p[3]))

\* the body of the vertex loop for one vertex: the screen point and the depth
\* (in units of 0.00001) that the loop stores
transform(v, rot, cam) ==
    project_guarded(
        translate(
            rotate_z(
                rotate_y(
                    rotate_x(<<At(v, 0) * Unit, At(v, 1) * Unit, At(v, 2) * Unit>>,
                             rot[1]),
                    rot[2]),
                rot[3]),
            cam))

AutoStep == 1

auto_rotate_twice(rot, on) ==
    IF on THEN [k \in 1..3 |-> rot[k] + 2 * AutoStep] ELSE rot

\* if self.rotating: camera_rotation[k] += 0.02
auto_rotate(rot, on) ==
    IF on THEN [k \in 1..3 |-> rot[k] + AutoStep] ELSE rot

\* Python's list[i]: negative indices count from the end
PyValid(i, n) == -n <= i /\ i < n
PyAt(list, i) == IF i < 0 THEN list[Len(list) + i + 1] ELSE list[i + 1]

(***************************************************************************)
(* Scene.painters_algorithm                                                *)
(***************************************************************************)
RECURSIVE SumDepths(_, _)
SumDepths(depths, idx) ==
    IF idx = <<>> THEN 0
    ELSE PyAt(depths, Head(idx)) + SumDepths(depths, Tail(idx))

\* facet[:3]
first_three(facet) == SubSeq(facet, 1, Min(3, Len(facet)))

\* 3 * avg_depth(facet): the sum the code divides by 3.0
avg_depth3(depths, facet) == SumDepths(depths, first_three(facet))

\* insertion of item x after every item whose key is <= key(x)
RECURSIVE insert_sorted(_, _, _)
insert_sorted(depths, s, x) ==
    IF s = <<>> THEN <<x>>
    ELSE IF avg_depth3(depths, Head(s)) <= avg_depth3(depths, x)
         THEN <<Head(s)>> \o insert_sorted(depths, Tail(s), x)
         ELSE <<x>> \o s

\* a stable ascending sort by avg_depth
RECURSIVE stable_sort(_, _)
stable_sort(depths, s) ==
    IF s = <<>> THEN <<>>
    ELSE insert_sorted(depths, stable_sort(depths, SubSeq(s, 1, Len(s) - 1)), s[Len(s)])

\* a descending sort that reverses the ascending one and nothing else
painters_algorithm_no_pre_reverse(depths, fs) ==
    Reverse(stable_sort(depths, fs))

\* sorted(facets, key=avg_depth, reverse=True): the list is reversed, sorted
\* stably in ascending order and reversed again
painters_algorithm(depths, fs) ==
    Reverse(stable_sort(depths, Reverse(fs)))

(***************************************************************************)
(* Scene.render_model as a whole                                           *)
(***************************************************************************)
\* the vertex loop reads vertices[i][0..2]
vertex_raises(vs) == \E i \in 1..Len(vs) : Len(vs[i]) < 3

\* the facet loops read point_list[facet[0..2]] (and depths[x], x in facet[:3])
facet_raises(vs, fs) ==
    \E i \in 1..Len(fs) :
        \/ Len(fs[i]) < 3
        \/ \E k \in 1..3 : ~PyValid(fs[i][k], Len(vs))

\* gouraud_shading divides by the lengths of ab and ac
shading_raises(vs, fs) ==
    \E i \in 1..Len(fs) :
        \/ PyAt(vs, fs[i][1]) = PyAt(vs, fs[i][2])
        \/ PyAt(vs, fs[i][1]) = PyAt(vs, fs[i][3])

render_raises(vs, fs, isFilled) ==
    \/ vertex_raises(vs)
    \/ facet_raises(vs, fs)
    \/ (isFilled /\ shading_raises(vs, fs))

\* the facet loops, given the lists the vertex loop has filled
draw_facets(next, projected) ==
    /\ point_list' = [i \in 1..Len(vertices) |-> projected[i].point]
    /\ depth_list' = [i \in 1..Len(vertices) |-> projected[i].depth]
    /\ IF render_raises(vertices, facets, filled)
       THEN /\ pc' = "crashed"
            /\ UNCHANGED ordered_facets
       ELSE /\ pc' = next
            /\ ordered_facets' =
                   IF filled THEN painters_algorithm(depth_list', facets)
                   ELSE ordered_facets

\* the vertex loop with the angles rot, then the facet loops
project_all(next, rot) ==
    /\ camera_rotation' = rot
    /\ IF vertex_raises(vertices)
       THEN /\ pc' = "crashed"
            /\ UNCHANGED frameVars
       ELSE draw_facets(next, [i \in 1..Len(vertices) |->
                                  transform(vertices[i], rot, camera_position)])

\* One call of render_model; `next` is where control goes when it returns.
\* An exception is not caught anywhere and ends the program.
render_model(next) ==
    /\ project_all(next, auto_rotate(camera_rotation, rotating))
    /\ UNCHANGED <<sceneVars, camera_position, flagVars>>

(***************************************************************************)
TARGET_FPS == 60
\* 1.0 / 60.0 second is one tick
TARGET_FRAME_TIME == 1
\* FRAME_RATE_REFRESH, in seconds and in ticks
FRAME_RATE_REFRESH == 1
RefreshTicks == FRAME_RATE_REFRESH * TARGET_FPS * TARGET_FRAME_TIME

\* sleep_time = TARGET_FRAME_TIME - time_elapsed, 0.0 when negative
sleep_time(elapsed) ==
    IF TARGET_FRAME_TIME - elapsed < 0 THEN 0 ELSE TARGET_FRAME_TIME - elapsed

cycle_time(elapsed) == elapsed + sleep_time(elapsed)

\* if FRAME_RATE_TIME >= FRAME_RATE_REFRESH
refresh_due(t) == t >= RefreshTicks

\* The frame-rate bookkeeping of one call. hist observes it: the frames
\* rendered in the window so far (in the window that has just ended when
\* `set`), whether every cycle of that window took exactly the target frame
\* time, whether FPS was assigned by this call, and whether this is still
\* the first window since start-up.
update_clock(elapsed) ==
    LET t == FRAME_RATE_TIME + cycle_time(elapsed)
        isExact == cycle_time(elapsed) = TARGET_FRAME_TIME
        frames == (IF hist.set THEN 0 ELSE hist.frames) + 1
        exact == (IF hist.set THEN TRUE ELSE hist.exact) /\ isExact
        first == IF hist.set THEN FALSE ELSE hist.first
    IN  /\ IF refresh_due(t)
           THEN /\ FPS' = FRAME_RATE_COUNT \div FRAME_RATE_REFRESH
                /\ FRAME_RATE_TIME' = 0
                /\ FRAME_RATE_COUNT' = 0 + 1
           ELSE /\ FPS' = FPS
                /\ FRAME_RATE_TIME' = t
                /\ FRAME_RATE_COUNT' = FRAME_RATE_COUNT + 1
        /\ hist' = [frames |-> frames, exact |-> exact, first |-> first,
                    set |-> refresh_due(t)]

MaxAngle == 2

\* a frame that cannot push an angle past the sine table's bound
FrameAllowed ==
    rotating => \A k \in 1..3 : camera_rotation[k] + AutoStep <= MaxAngle

\* Scene.render_scene: the background, the FPS text and the flip change no
\* state of the program; render_model does
render_scene(next) == render_model(next)

\* One frame drawn by render_scene() alone. The frame-rate counters of
\* render_loop never flow into the scene (FPS is only drawn as text), so the
\* specifications about the scene leave them out.
RenderScene ==
    /\ pc = "loop"
    /\ FrameAllowed
    /\ render_scene("loop")
    /\ op' = <<"render_scene">>
    /\ UNCHANGED <<file, clockVars, mouseVars>>

\* render_loop(scene): render_scene(), then the bookkeeping; an exception
\* leaves the counters as they were
RenderLoop(elapsed) ==
    /\ pc = "loop"
    /\ FrameAllowed
    /\ render_scene("loop")
    /\ IF pc' = "crashed" THEN UNCHANGED clockVars ELSE update_clock(elapsed)
    /\ op' = <<"render_loop">>
    /\ UNCHANGED <<file, mouseVars>>

(***************************************************************************)
(* handle_mouse_event, handle_key_event, handle_mouse_motion               *)
(***************************************************************************)
zoom_in_unclamped(z) == IF z <= 0 THEN z + 1 ELSE z

\* if camera_position[2] < 0: camera_position[2] += 1
zoom_in(z) == IF z < 0 THEN z + 1 ELSE z

\* camera_position[2] -= 1
zoom_out(z) == z - 1

handle_mouse_event(button) ==
    LET z == camera_position[3]
        z1 == IF button = 4 THEN zoom_in(z) ELSE z
        z2 == IF button = 5 THEN zoom_out(z1) ELSE z1
    IN  /\ camera_position' = [camera_position EXCEPT ![3] = z2]
        /\ UNCHANGED <<camera_rotation, flagVars>>

handle_key_event(key) ==
    /\ rotating' = IF key = "r" THEN ~rotating ELSE rotating
    /\ filled' = IF key = "f" THEN ~filled ELSE filled
    /\ IF key = "b"
       THEN /\ camera_position' = [camera_position EXCEPT ![3] = InitialCameraZ]
            /\ camera_rotation' = <<0, 0, 0>>
       ELSE UNCHANGED cameraVars

\* rotation steps per unit of pointer motion (0.02 rad is one step)
DragScale == 1

\* pygame.mouse.get_rel() returns the motion since the previous call, so a
\* second call in the same handler finds none
motion_after_query(rel) == <<0, 0>>

\* handle_mouse_motion(scene) with rel accumulated at entry:
\* the rotation and the accumulated motion it leaves
mouse_motion_result(rot, rel, pressed) ==
    LET rot1 == IF pressed[1]
                THEN [rot EXCEPT ![1] = rot[1] + rel[1] * DragScale,
                                 ![2] = rot[2] + rel[2] * DragScale]
                ELSE rot
        rel1 == IF pressed[1] THEN motion_after_query(rel) ELSE rel
        rot2 == IF pressed[3]
                THEN [rot1 EXCEPT ![3] = rot1[3] + rel1[1] * DragScale]
                ELSE rot1
        rel2 == IF pressed[3] THEN motion_after_query(rel1) ELSE rel1
    IN  [rot |-> rot2, rel |-> rel2]

(***************************************************************************)
(* One event of the loop `for event in pygame.event.get()`.  The lists of  *)
(* the last frame are locals of render_model and are gone by then.         *)
(***************************************************************************)
frameGone ==
    /\ point_list' = <<>>
    /\ depth_list' = <<>>
    /\ ordered_facets' = <<>>

MaxZoomOut == 1
MaxMove == 1

Keys == {"r", "f", "b", "x"}

KeyDown(key) ==
    /\ pc = "loop"
    /\ handle_key_event(key)
    /\ op' = <<"handle_key_event", key>>
    /\ frameGone
    /\ UNCHANGED <<pc, file, sceneVars, clockVars, mouseVars>>

\* MOUSEBUTTONDOWN with the wheel: button 4 (up) or 5 (down)
Wheel(button) ==
    /\ pc = "loop"
    /\ button = 5 => camera_position[3] > InitialCameraZ - MaxZoomOut
    /\ handle_mouse_event(button)
    /\ op' = <<"handle_mouse_event", button>>
    /\ frameGone
    /\ UNCHANGED <<pc, file, sceneVars, clockVars, mouseVars>>

\* MOUSEBUTTONDOWN with the left (1) or right (3) button: pygame records the
\* button as pressed and handle_mouse_event changes nothing
ButtonDown(button) ==
    /\ pc = "loop"
    /\ ~mouse_pressed[button]
    /\ mouse_pressed' = [mouse_pressed EXCEPT ![button] = TRUE]
    /\ handle_mouse_event(button)
    /\ op' = <<"handle_mouse_event", button>>
    /\ frameGone
    /\ UNCHANGED <<pc, file, sceneVars, clockVars, mouse_rel>>

\* MOUSEBUTTONUP: main() has no handler for it
ButtonUp(button) ==
    /\ pc = "loop"
    /\ mouse_pressed[button]
    /\ mouse_pressed' = [mouse_pressed EXCEPT ![button] = FALSE]
    /\ op' = <<"button_up", button>>
    /\ frameGone
    /\ UNCHANGED <<pc, file, sceneVars, cameraVars, flagVars, clockVars, mouse_rel>>

InRange(n, m) == -m <= n /\ n <= m

\* MOUSEMOTION by (dx, dy): pygame adds it to the motion get_rel() reports
MouseMotion(dx, dy) ==
    LET rel == <<mouse_rel[1] + dx, mouse_rel[2] + dy>>
        res == mouse_motion_result(camera_rotation, rel, mouse_pressed)
    IN  /\ pc = "loop"
        /\ InRange(rel[1], MaxMove) /\ InRange(rel[2], MaxMove)
        /\ \A k \in 1..3 : InRange(res.rot[k], MaxAngle)
        /\ camera_rotation' = res.rot
        /\ mouse_rel' = res.rel
        /\ op' = <<"handle_mouse_motion", dx, dy>>
        /\ frameGone
        /\ UNCHANGED <<pc, file, sceneVars, camera_position, flagVars, clockVars,
                       mouse_pressed>>

\* QUIT: pygame.quit(); sys.exit()
Quit ==
    /\ pc = "loop"
    /\ pc' = "exit"
    /\ op' = <<"quit">>
    /\ frameGone
    /\ UNCHANGED <<file, sceneVars, cameraVars, flagVars, clockVars, mouseVars>>

(***************************************************************************)
(* objreader.read and the start of main()                                  *)
(*                                                                         *)
(* A line is its tag ("v", "f" or anything else) and the fields after it.  *)
(* A field is a numeral: kind "int" (such as 3), "real" (such as 3.0) or   *)
(* "bad" (not a number), with more = TRUE when a "/" and further text      *)
(* follow its leading part (3/7).                                          *)
(***************************************************************************)
IntTok(n) == [kind |-> "int", val |-> n, more |-> FALSE]
RealTok(n) == [kind |-> "real", val |-> n, more |-> FALSE]
SlashTok(n) == [kind |-> "int", val |-> n, more |-> TRUE]
BadTok == [kind |-> "bad", val |-> 0, more |-> FALSE]

Line(tag, toks) == [tag |-> tag, toks |-> toks]

\* float(x) raises ValueError
float_raises(t) == t.kind = "bad" \/ t.more

\* int(x.split("/")[0]) raises ValueError
int_raises(t) == t.kind /= "int"

vertex_line_raises(line) == \E k \in 1..Len(line.toks) : float_raises(line.toks[k])
facet_line_raises(line) == \E k \in 1..Len(line.toks) : int_raises(line.toks[k])

\* vertex = [float(x) for x in line.split()[1:]]
parse_vertex(line) == [k \in 1..Len(line.toks) |-> line.toks[k].val]

\* facet = [int(x.split("/")[0]) - 1 for x in line.split()[1:]]
parse_facet(line) == [k \in 1..Len(line.toks) |-> line.toks[k].val - 1]

\* the loop over input_file.readlines()
RECURSIVE read_lines(_, _, _, _)
read_lines(lines, k, vs, fs) ==
    IF k > Len(lines) THEN [ok |-> TRUE, vertices |-> vs, facets |-> fs]
    ELSE LET line == lines[k]
         IN  IF line.tag = "v"
             THEN IF vertex_line_raises(line)
                  THEN [ok |-> FALSE, vertices |-> vs, facets |-> fs]
                  ELSE read_lines(lines, k + 1, Append(vs, parse_vertex(line)), fs)
             ELSE IF line.tag = "f"
             THEN IF facet_line_raises(line)
                  THEN [ok |-> FALSE, vertices |-> vs, facets |-> fs]
                  ELSE read_lines(lines, k + 1, vs, Append(fs, parse_facet(line)))
             ELSE read_lines(lines, k + 1, vs, fs)

\* read(filename): the triple, or ok = FALSE when an exception leaves it
\* (open() fails, a field does not parse, a facet has fewer than 3 indices)
read(f) ==
    LET r == read_lines(f.lines, 1, <<>>, <<>>)
    IN  IF ~f.exists \/ ~r.ok \/ \E i \in 1..Len(r.facets) : Len(r.facets[i]) < 3
        THEN [ok |-> FALSE, vertices |-> <<>>, facets |-> <<>>, edges |-> <<>>]
        ELSE [ok |-> TRUE, vertices |-> r.vertices, facets |-> r.facets,
              edges |-> convert_facets_to_edges(r.facets)]

\* random.randrange(256) three times: the two extreme colours stand for all
Colours == {<<0, 0, 0>>, <<255, 255, 255>>}

\* facets[i].append(colour)
colorize_facets(fs, colours) == [i \in 1..Len(fs) |-> Append(fs[i], colours[i])]

\* main() up to the loop: Scene(...) is built, then the model file, if one
\* is named, is read and loaded. No exception is caught.
Load ==
    /\ pc = "start"
    /\ IF ~file.given
       THEN /\ pc' = "loop"
            /\ op' = <<"main", "default">>
            /\ UNCHANGED sceneVars
       ELSE LET r == read(file)
            IN  IF ~r.ok
                THEN /\ pc' = "crashed"
                     /\ op' = <<"main", "raised">>
                     /\ UNCHANGED sceneVars
                ELSE /\ pc' = "loop"
                     /\ op' = <<"main", "loaded">>
                     /\ \E colours \in [1..Len(r.facets) -> Colours] :
                            facets' = colorize_facets(r.facets, colours)
                     /\ vertices' = r.vertices
                     /\ edges' = r.edges
    /\ UNCHANGED <<file, cameraVars, flagVars, clockVars, mouseVars, frameVars>>

NoFile == [given |-> FALSE, exists |-> FALSE, lines |-> <<>>]
MissingFile == [given |-> TRUE, exists |-> FALSE, lines |-> <<>>]
FileOf(lines) == [given |-> TRUE, exists |-> TRUE, lines |-> lines]

\* the state main() is in when it enters its loop without a model file
LoopInit ==
    /\ pc = "loop"
    /\ file = NoFile
    /\ SceneInit
    /\ GlobalsInit
    /\ PygameInit
    /\ NoFrameYet
    /\ op = <<"main", "default">>

(***************************************************************************)
(* The program from its start, over a set of model files                   *)
(***************************************************************************)
MaxLoadIndex == 4
MaxFacetLines == 2

VLine(x, y, z) == Line("v", <<x, y, z>>)
FLine(a, b, c) == Line("f", <<a, b, c>>)

ThreeVertices ==
    << VLine(IntTok(0), IntTok(0), IntTok(0)),
       VLine(RealTok(1), IntTok(0), IntTok(0)),
       VLine(IntTok(0), RealTok(1), IntTok(0)) >>

VertexBlocks ==
    { ThreeVertices,
      <<Line("#", <<BadTok>>)>> \o ThreeVertices,
      Append(ThreeVertices, VLine(IntTok(0), BadTok, IntTok(0))) }

FacetLines ==
    {FLine(IntTok(1), IntTok(2), IntTok(c)) : c \in -1..MaxLoadIndex}
    \cup { FLine(IntTok(1), IntTok(2), BadTok),
           FLine(IntTok(1), IntTok(2), RealTok(3)),
           FLine(SlashTok(1), SlashTok(2), SlashTok(3)),
           Line("f", <<IntTok(1), IntTok(2)>>) }

Files ==
    {NoFile, MissingFile}
    \cup {FileOf(vb \o fb) : vb \in VertexBlocks, fb \in SeqsUpTo(FacetLines, MaxFacetLines)}

InitMain ==
    /\ pc = "start"
    /\ file \in Files
    /\ SceneInit
    /\ GlobalsInit
    /\ PygameInit
    /\ NoFrameYet
    /\ op = <<"none">>

NextMain ==
    \/ Load
    \/ \E key \in {"f", "x"} : KeyDown(key)
    \/ RenderScene
    \/ Quit

SpecMain == InitMain /\ [][NextMain]_vars

(***************************************************************************)
(* Keys, wheel and frames on the built-in cube                             *)
(***************************************************************************)
NextFrame ==
    \/ \E key \in Keys : KeyDown(key)
    \/ \E button \in {4, 5} : Wheel(button)
    \/ RenderScene

SpecFrame == LoopInit /\ [][NextFrame]_vars

(***************************************************************************)
(* Pointer buttons, pointer motion and keys within one batch of events     *)
(***************************************************************************)
NextDrag ==
    \/ \E button \in {1, 3} : ButtonDown(button)
    \/ \E button \in {1, 3} : ButtonUp(button)
    \/ \E dx \in -MaxMove..MaxMove, dy \in -MaxMove..MaxMove : MouseMotion(dx, dy)
    \/ \E key \in Keys : KeyDown(key)

SpecDrag == LoopInit /\ [][NextDrag]_vars

(***************************************************************************)
(* The frame-rate window, with frames that take up to MaxElapsed ticks     *)
(***************************************************************************)
MaxElapsed == 2

NextClock == \E elapsed \in 0..MaxElapsed : RenderLoop(elapsed)

SpecClock == LoopInit /\ [][NextClock]_vars

(***************************************************************************)
(* painters_algorithm on its own: depth lists of three vertices and facet  *)
(* lists of at most MaxSortLen facets, plain or coloured                   *)
(***************************************************************************)
MaxDepth == 1
MaxSortLen == 3

PlainFacets == {<<0, 1, 2>>, <<2, 1, 0>>, <<0, 0, 1>>, <<1, 2, 2>>}
ColouredFacets == {Append(f, c) : f \in PlainFacets, c \in {<<0, 0, 0>>}}

InitSort ==
    /\ pc = "call"
    /\ file = NoFile
    /\ vertices = CubeVertices
    /\ facets \in SeqsUpTo(PlainFacets, MaxSortLen) \cup SeqsUpTo(ColouredFacets, MaxSortLen)
    /\ edges = CubeEdges
    /\ camera_position = <<0, 0, InitialCameraZ>>
    /\ camera_rotation = <<0, 0, 0>>
    /\ rotating = FALSE
    /\ filled = TRUE
    /\ GlobalsInit
    /\ PygameInit
    /\ point_list = <<>>
    /\ depth_list \in [1..3 -> -MaxDepth..MaxDepth]
    /\ ordered_facets = <<>>
    /\ op = <<"none">>

CallPainters ==
    /\ pc = "call"
    /\ ordered_facets' = painters_algorithm(depth_list, facets)
    /\ pc' = "ret"
    /\ op' = <<"painters_algorithm">>
    /\ UNCHANGED <<file, sceneVars, cameraVars, flagVars, clockVars, mouseVars,
                   point_list, depth_list>>

NextSort == CallPainters

SpecSort == InitSort /\ [][NextSort]_vars

(***************************************************************************)
(* render_model on its own, on a mesh of one vertex                        *)
(***************************************************************************)
MaxCoord == 1
MaxTurn == 1

Coords == (-MaxCoord..MaxCoord) \cup {InitialCameraZ, -InitialCameraZ}
CameraZs == {InitialCameraZ, InitialCameraZ + 1, 0}

InitTransform ==
    /\ pc = "call"
    /\ file = NoFile
    /\ vertices \in {<< <<x, y, z>> >> : x \in Coords, y \in Coords, z \in Coords}
    /\ facets = <<>>
    /\ edges = <<>>
    /\ camera_position \in {<<0, 0, z>> : z \in CameraZs}
    /\ camera_rotation \in [1..3 -> -MaxTurn..MaxTurn]
    /\ rotating \in BOOLEAN
    /\ filled = FALSE
    /\ GlobalsInit
    /\ PygameInit
    /\ NoFrameYet
    /\ op = <<"none">>

CallRenderModel ==
    /\ pc = "call"
    /\ render_model("ret")
    /\ op' = <<"render_model">>
    /\ UNCHANGED <<file, clockVars, mouseVars>>

NextTransform == CallRenderModel

SpecTransform == InitTransform /\ [][NextTransform]_vars

(***************************************************************************)
(* convert_facets_to_edges on its own: every facet list of at most         *)
(* MaxFacets triangles over the vertex indices 0..MaxIndex, the built-in   *)
(* cube's facet list, and a list of two facets of four indices.            *)
(***************************************************************************)
MaxIndex == 2
MaxFacets == 2

Triangles == {<<a, b, c>> : a \in 0..MaxIndex, b \in 0..MaxIndex, c \in 0..MaxIndex}
\* facets as parse_facet builds them from lines of four fields
QuadFacets == << <<0, 1, 2, 3>>, <<3, 2, 1, 0>> >>
FacetLists == SeqsUpTo(Triangles, MaxFacets) \cup {CubeFacets, QuadFacets}

InitEdges ==
    /\ pc = "call"
    /\ file = NoFile
    /\ facets \in FacetLists
    /\ vertices = CubeVertices
    /\ edges = <<>>
    /\ camera_position = <<0, 0, InitialCameraZ>>
    /\ camera_rotation = <<0, 0, 0>>
    /\ rotating = FALSE
    /\ filled = FALSE
    /\ GlobalsInit
    /\ PygameInit
    /\ NoFrameYet
    /\ op = <<"none">>

CallConvert ==
    /\ pc = "call"
    /\ edges' = convert_facets_to_edges(facets)
    /\ pc' = "ret"
    /\ op' = <<"convert_facets_to_edges">>
    /\ UNCHANGED <<file, vertices, facets, cameraVars, flagVars, clockVars,
                   mouseVars, frameVars>>

NextEdges == CallConvert

SpecEdges == InitEdges /\ [][NextEdges]_vars

\* the pairs in the order convert_facets_to_edges generates them
RECURSIVE Generated(_)
Generated(fs) ==
    IF fs = <<>> THEN <<>>
    ELSE LET f == fs[Len(fs)]
         IN  Generated(SubSeq(fs, 1, Len(fs) - 1)) \o
             << <<Min(f[1], f[2]), Max(f[1], f[2])>>,
                <<Min(f[2], f[3]), Max(f[2], f[3])>>,
                <<Min(f[1], f[3]), Max(f[1], f[3])>> >>

FirstAt(g, e) == CHOOSE k \in 1..Len(g) : g[k] = e /\ \A j \in 1..(k - 1) : g[j] /= e

\* C1: the edge list returned by convert_facets_to_edges holds ascending
\* pairs only, holds no pair twice, holds exactly the generated pairs in the
\* order in which each was first generated, and has at most 3 edges per facet.
C1_EdgesUniqueInOrder ==
    pc = "ret" =>
        LET g == Generated(facets)
        IN  /\ \A k \in 1..Len(edges) : Len(edges[k]) = 2 /\ edges[k][1] <= edges[k][2]
            /\ \A j, k \in 1..Len(edges) : j /= k => edges[j] /= edges[k]
            /\ {edges[k] : k \in 1..Len(edges)} = {g[k] : k \in 1..Len(g)}
            /\ \A j, k \in 1..Len(edges) :
                   j < k => FirstAt(g, edges[j]) < FirstAt(g, edges[k])
            /\ Len(edges) <= 3 * Len(facets)

\* a facet list whose facets share an edge generated in both orientations
C1_Witness ==
    /\ pc = "ret"
    /\ Len(facets) = 2
    /\ Len(edges) < 3 * Len(facets)
    /\ \E j, k \in 1..2 : facets[1][j] > facets[1][k] /\ j < k

\* C2 as stated: the cube's 12 triangles give exactly 12 edges.
C2_CubeTwelveEdges ==
    (pc = "ret" /\ facets = CubeFacets) => Len(edges) = 12

\* C2 (amended): convert_facets_to_edges on the built-in cube's 12 triangular
\* facets returns exactly 18 edges: the 12 edges of the cube and the 6 face
\* diagonals.
C2_CubeEighteenEdges ==
    (pc = "ret" /\ facets = CubeFacets) =>
        /\ Len(edges) = 18
        /\ \A k \in 1..Len(CubeEdges) :
               \E j \in 1..Len(edges) :
                   edges[j] = <<Min(CubeEdges[k][1], CubeEdges[k][2]),
                                Max(CubeEdges[k][1], CubeEdges[k][2])>>

C2_Witness == pc = "ret" /\ facets = CubeFacets /\ Len(edges) > 0

(***************************************************************************)
(* Wheel zoom (SpecFrame)                                                  *)
(***************************************************************************)
\* C3 as stated: the camera Z position is strictly below 0 in every
\* reachable state.
C3_CameraStrictlyNegative == camera_position[3] < 0

\* C3 (amended): after any sequence of wheel and key events the camera Z
\* position is never positive: zooming in stops at exactly 0.
C3_CameraNeverPositive == camera_position[3] <= 0

\* a wheel-up event handled with the camera on the plane Z = 0
C3_Witness ==
    /\ op = <<"handle_mouse_event", 4>>
    /\ camera_position[3] = 0

(***************************************************************************)
(* Loading a model file (SpecMain)                                         *)
(***************************************************************************)
MeshIsCube == vertices = CubeVertices /\ facets = CubeFacets /\ edges = CubeEdges

MalformedLine(f) == f.exists /\ ~read_lines(f.lines, 1, <<>>, <<>>).ok

\* C4: when the load fails on a malformed vertex or facet line, the mesh is
\* still the built-in cube and the program goes on (to render it) instead
\* of ending on the exception.
C4_FailedLoadKeepsCubeAndRuns ==
    (pc /= "start" /\ file.given /\ MalformedLine(file)) =>
        (MeshIsCube /\ pc /= "crashed")

\* C5: whenever a frame can be rendered, the first three indices of every
\* facet are within [0, vertexCount).
C5_FacetIndicesInRange ==
    pc = "loop" =>
        \A i \in 1..Len(facets) :
            \A k \in 1..3 : 0 <= facets[i][k] /\ facets[i][k] < Len(vertices)

(***************************************************************************)
(* The frame-rate window (SpecClock)                                       *)
(***************************************************************************)
\* C6: when every cycle of a window took exactly the target frame time, the
\* call that ends the window sets FPS to the number of frames rendered in
\* that window, which is 60; in the first window as in every later one.
C6_ExactWindowShowsSixty ==
    (hist.set /\ hist.exact) =>
        (hist.frames = TARGET_FPS /\ FPS = hist.frames)

(***************************************************************************)
(* painters_algorithm (SpecSort)                                           *)
(***************************************************************************)
DepthSum(f) == depth_list[f[1] + 1] + depth_list[f[2] + 1] + depth_list[f[3] + 1]

\* C7: painters_algorithm returns a permutation of the facet list in order of
\* non-increasing average depth of the first three vertices, and facets of
\* equal average depth keep the order they had in the input.
C7_StableDescendingPermutation ==
    pc = "ret" =>
        LET n == Len(facets)
        IN  /\ Len(ordered_facets) = n
            /\ \E pi \in [1..n -> 1..n] :
                   /\ \A i, j \in 1..n : i /= j => pi[i] /= pi[j]
                   /\ \A i \in 1..n : ordered_facets[i] = facets[pi[i]]
                   /\ \A i, j \in 1..n :
                          i < j =>
                              /\ DepthSum(ordered_facets[i]) >= DepthSum(ordered_facets[j])
                              /\ DepthSum(ordered_facets[i]) = DepthSum(ordered_facets[j])
                                     => pi[i] < pi[j]

\* three facets, reordered, two different ones of equal average depth
C7_Witness ==
    /\ pc = "ret"
    /\ Len(facets) = 3
    /\ ordered_facets /= facets
    /\ \E i, j \in 1..3 :
           /\ i < j
           /\ facets[i] /= facets[j]
           /\ DepthSum(facets[i]) = DepthSum(facets[j])
           /\ DepthSum(facets[i]) /= DepthSum(facets[6 - i - j])

(***************************************************************************)
(* The transform at rotation zero (SpecTransform)                          *)
(***************************************************************************)
ZeroRotation == pc = "ret" /\ camera_rotation = <<0, 0, 0>>

\* C8 as stated: vertex (0,0,-10), zero rotation, camera (0,0,-10): the depth
\* is 0, replaced by the epsilon, and the point is the screen centre.
C8_EpsilonAtMinusTen ==
    ( /\ ZeroRotation
      /\ camera_position = <<0, 0, InitialCameraZ>>
      /\ vertices = << <<0, 0, InitialCameraZ>> >> )
    => (depth_list = <<1>> /\ point_list = << <<centre_x, centre_y>> >>)

\* C8 (amended): with zero rotation the rotation step maps (x, y, z) to
\* (-x, y, -z), so the recorded depth is -z_vertex - z_camera, replaced by the
\* epsilon 0.00001 when it is 0; this happens for the vertex (0,0,10) with the
\* camera at (0,0,-10). A vertex on the Z axis is drawn exactly at the screen
\* centre.
C8_ZeroRotationMirrors ==
    ZeroRotation =>
        LET v == vertices[1]
            d == -v[3] - camera_position[3]
            z == IF d = 0 THEN 1 ELSE d * EpsilonInv
        IN  /\ depth_list = <<z>>
            /\ d /= 0 =>
                   /\ point_list[1][1] =
                          TruncDiv(camera_distortion * (-v[1]) * EpsilonInv + centre_x * z, z)
                   /\ point_list[1][2] =
                          TruncDiv(camera_distortion * v[2] * EpsilonInv + centre_y * z, z)
            /\ (v[1] = 0 /\ v[2] = 0) => point_list = << <<centre_x, centre_y>> >>
            /\ v = <<0, 0, -camera_position[3]>> => depth_list = <<1>>

C8_Witness ==
    /\ ZeroRotation
    /\ camera_position = <<0, 0, InitialCameraZ>>
    /\ vertices = << <<0, 0, -InitialCameraZ>> >>
    /\ depth_list = <<1>>

(***************************************************************************)
(* Pointer drag (SpecDrag)                                                 *)
(***************************************************************************)
\* C9: a motion event handled with the secondary button held adds 0.02 times
\* the accumulated horizontal motion to the Z rotation, whatever the primary
\* button; with the primary button alone X and Y turn and Z does not.
C9_SecondaryDragTurnsZ ==
    [][ op'[1] = "handle_mouse_motion" =>
            LET dx == mouse_rel[1] + op'[2]
                dy == mouse_rel[2] + op'[3]
            IN  /\ mouse_pressed[3] =>
                       camera_rotation'[3] = camera_rotation[3] + dx * DragScale
                /\ (mouse_pressed[1] /\ ~mouse_pressed[3]) =>
                       /\ camera_rotation'[1] = camera_rotation[1] + dx * DragScale
                       /\ camera_rotation'[2] = camera_rotation[2] + dy * DragScale
                       /\ camera_rotation'[3] = camera_rotation[3] ]_vars

(***************************************************************************)
(* Auto-rotation (SpecFrame)                                               *)
(***************************************************************************)
\* C10: a frame with rotating set advances each angle by one step, once, and
\* every vertex of the frame is transformed with the advanced angles; a frame
\* with rotating clear leaves the angles alone; no frame changes the camera
\* position, the mesh or the flags.
C10_OneStepPerFrame ==
    [][ op' = <<"render_scene">> =>
            /\ camera_rotation' =
                   [k \in 1..3 |-> camera_rotation[k] + (IF rotating THEN AutoStep ELSE 0)]
            /\ UNCHANGED <<sceneVars, camera_position, flagVars>>
            /\ Len(point_list') = Len(vertices) /\ Len(depth_list') = Len(vertices)
            /\ \A i \in 1..Len(vertices) :
                   LET t == transform(vertices[i], camera_rotation', camera_position)
                   IN  point_list'[i] = t.point /\ depth_list'[i] = t.depth ]_vars

\* the second frame in a row with rotating set
C10_Witness ==
    /\ op = <<"render_scene">>
    /\ rotating
    /\ camera_rotation = <<2 * AutoStep, 2 * AutoStep, 2 * AutoStep>>
    /\ Len(point_list) = Len(vertices)

====
